---- MODULE Spec2Model ----
(***************************************************************************)
(* Model of pubmed_images_caption.py: one run of main(), i.e. the search   *)
(* request (fetch_pmc_ids), the batch loop of fetch_article_details with   *)
(* its per-article page request (fetch_cdn_links) and per-figure join, and *)
(* the final json.dump.  The three remote services are the environment:    *)
(* every request either fails (requests.exceptions.RequestException) or    *)
(* returns a parsed document drawn from a small set.                       *)
(*                                                                         *)
(* Strings that the program searches or concatenates (URLs, graphic        *)
(* references, the id list of a request) are sequences of tokens; `in`,    *)
(* startswith and + are the corresponding sequence operations.  Texts that *)
(* are only copied (title, abstract, caption, PMC id) are TLA+ strings,    *)
(* and Python's None is the value None below, distinct from every text of  *)
(* the input sets.                                                         *)
(***************************************************************************)
EXTENDS Integers, Sequences, FiniteSets, TLC

VARIABLES
    pc,               \* control point of the run
    batch_size,       \* parameter of fetch_article_details
    pmcids,           \* main: result of fetch_pmc_ids
    article_details,  \* fetch_article_details: the accumulating result list
    batch_start,      \* loop variable of the batch loop (0-based offset)
    articles,         \* root.findall(".//article") of the current batch
    art_idx,          \* position of the article loop in articles (1-based)
    pmcid, cdn_links, title, abstract,   \* locals of the article loop body
    captions, images, \* per-article lists filled by the figure loop
    fig_idx,          \* position of the figure loop (1-based)
    files,            \* the collections written by json.dump, in order
    log               \* every request issued so far, with its outcome

vars == <<pc, batch_size, pmcids, article_details, batch_start, articles,
          art_idx, pmcid, cdn_links, title, abstract, captions, images,
          fig_idx, files, log>>

-----------------------------------------------------------------------------
(* Bounds of the model *)

MaxIds == 3       \* longest identifier list a search returns
MaxBatch == 2     \* batch sizes 1..MaxBatch are tried besides the default
MaxFigs == 1      \* most figures of an article drawn from the full product
MaxImgs == 2      \* most <img> tags of an article page drawn from the product

(* Program constants *)

DefaultBatchSize == 5

None == "None"

NoPmcid == "No PMCID"
NoTitle == "No title"
NoAbstract == "No abstract"
NoCaption == "No caption"
NoImageUrl == <<"No image URL">>
NoMatchFound == <<"No Match Found">>

CdnHost == <<"cdn.ncbi.nlm.nih.gov">>
ProtocolRelative == <<"//">>
HttpsScheme == <<"https:">>

-----------------------------------------------------------------------------
(* Sequence helpers *)

Min(a, b) == IF a < b THEN a ELSE b

SeqsUpTo(S, n) == UNION {[1..k -> S] : k \in 0..n}

\* Python's `sub in s` on strings
Contains(sub, s) ==
    \E i \in 0..(Len(s) - Len(sub)) :
        \A k \in 1..Len(sub) : s[i + k] = sub[k]

\* Python's s.startswith(prefix)
StartsWith(s, prefix) ==
    /\ Len(s) >= Len(prefix)
    /\ \A k \in 1..Len(prefix) : s[k] = prefix[k]

RECURSIVE Join(_, _)
\* sep.join(items), each item one token
Join(sep, items) ==
    IF Len(items) = 0 THEN <<>>
    ELSE IF Len(items) = 1 THEN <<items[1]>>
    ELSE <<items[1], sep>> \o Join(sep, Tail(items))

-----------------------------------------------------------------------------
(* Inputs: what the three services may return *)

IdNames == <<"11", "22", "33", "44", "55", "66">>

\* esearch results: the first n identifiers, n = 0..MaxIds
IdSeqs == {SubSeq(IdNames, 1, n) : n \in 0..Min(MaxIds, Len(IdNames))}

BatchSizes == (1..MaxBatch) \cup {DefaultBatchSize}

\* an element looked up with find(): absent, present without text, with text
Elem(present, text) == [present |-> present, text |-> text]
Absent == Elem(FALSE, None)
Elems(texts) == {Absent} \cup {Elem(TRUE, t) : t \in texts \cup {None}}

\* the <graphic> of a figure: absent, without xlink:href, with (empty) href
Graphic(present, has_href, href) ==
    [present |-> present, has_href |-> has_href, href |-> href]
NoGraphic == Graphic(FALSE, FALSE, <<>>)
Graphics ==
    {NoGraphic, Graphic(TRUE, FALSE, <<>>)}
        \cup {Graphic(TRUE, TRUE, h) : h \in {<<>>, <<"f1">>, <<"f2">>}}

Figs == [caption : Elems({"c1"}), graphic : Graphics]

Fig(c, g) == [caption |-> c, graphic |-> g]
Article(p, t, a, f) == [pmcid |-> p, title |-> t, abstract |-> a, figs |-> f]

\* articles for the runs with several batches
FullArticle ==
    Article(Elem(TRUE, "11"), Elem(TRUE, "t1"), Elem(TRUE, "a1"),
            <<Fig(Elem(TRUE, "c1"), Graphic(TRUE, TRUE, <<"f1">>)),
              Fig(Absent, NoGraphic),
              Fig(Elem(TRUE, "c2"), Graphic(TRUE, TRUE, <<"f2">>))>>)
BareArticle == Article(Absent, Absent, Elem(TRUE, None), <<>>)
PlainArticle ==
    Article(Elem(TRUE, "22"), Elem(TRUE, None), Absent,
            <<Fig(Elem(TRUE, None), Graphic(TRUE, FALSE, <<>>)),
              Fig(Elem(TRUE, "c1"), Graphic(TRUE, TRUE, <<"f1">>))>>)
RunArticles == {FullArticle, BareArticle, PlainArticle}

\* articles for the single-article runs: the full product
AllArticles ==
    [pmcid : Elems({"11"}), title : Elems({"t1"}), abstract : Elems({"a1"}),
     figs : SeqsUpTo(Figs, MaxFigs)]

\* an <img> tag: its src attribute, if any
Img(has_src, src) == [has_src |-> has_src, src |-> src]
RelF1 == <<"//", "cdn.ncbi.nlm.nih.gov", "/", "f1">>
AbsF1F2 == <<"https:", "//", "cdn.ncbi.nlm.nih.gov", "/", "f1", "f2">>
LocalF1 == <<"/", "static", "/", "f1">>
Imgs == {Img(FALSE, <<>>), Img(TRUE, <<>>), Img(TRUE, RelF1),
         Img(TRUE, AbsF1F2), Img(TRUE, LocalF1)}

RunPages ==
    {<<>>, <<Img(TRUE, LocalF1), Img(TRUE, RelF1)>>,
     <<Img(TRUE, RelF1), Img(FALSE, <<>>), Img(TRUE, AbsF1F2)>>}
AllPages == SeqsUpTo(Imgs, MaxImgs)

-----------------------------------------------------------------------------
(* fetch_cdn_links *)

RECURSIVE ScanImgs(_)
\* the loop over soup.find_all('img')
ScanImgs(page) ==
    IF page = <<>> THEN <<>>
    ELSE LET img == Head(page)
             src == img.src
         IN  IF img.has_src /\ src # <<>> /\ Contains(CdnHost, src)
             THEN <<IF StartsWith(src, ProtocolRelative)
                    THEN HttpsScheme \o src ELSE src>> \o ScanImgs(Tail(page))
             ELSE ScanImgs(Tail(page))

\* variant: the request's exception is not caught and the body is scanned anyway
fetch_cdn_links_NoCatch(ok, page) == ScanImgs(page)

fetch_cdn_links(ok, page) == IF ok THEN ScanImgs(page) ELSE <<>>

(* fetch_pmc_ids *)

\* variant: the request's exception is not caught and the body is parsed anyway
fetch_pmc_ids_NoCatch(ok, ids) == ids

fetch_pmc_ids(ok, ids) == IF ok THEN ids ELSE <<>>

(* fetch_article_details: the expressions of the loop bodies *)

\* variant: the slice runs one identifier too far
BatchOf_Overlap(ids, start, size) ==
    SubSeq(ids, start + 1, Min(start + size + 1, Len(ids)))

BatchOf(ids, start, size) == SubSeq(ids, start + 1, Min(start + size, Len(ids)))

\* variant: no fallback for a missing identifier
PmcidOf_NoFallback(article) == article.pmcid.text

PmcidOf(article) ==
    IF article.pmcid.present THEN article.pmcid.text ELSE NoPmcid

TitleOf(article) ==
    IF article.title.present THEN article.title.text ELSE NoTitle

AbstractOf(article) ==
    IF article.abstract.present THEN article.abstract.text ELSE NoAbstract

CaptionOf(fig) ==
    IF fig.caption.present THEN fig.caption.text ELSE NoCaption

RECURSIVE FirstMatch_Last(_, _)
\* variant: the last matching link wins
FirstMatch_Last(image_href, links) ==
    IF links = <<>> THEN NoMatchFound
    ELSE IF Contains(image_href, links[Len(links)]) THEN links[Len(links)]
    ELSE FirstMatch_Last(image_href, SubSeq(links, 1, Len(links) - 1))

RECURSIVE FirstMatch(_, _)
\* next((url for url in cdn_links if image_href in url), "No Match Found")
FirstMatch(image_href, links) ==
    IF links = <<>> THEN NoMatchFound
    ELSE IF Contains(image_href, Head(links)) THEN Head(links)
    ELSE FirstMatch(image_href, Tail(links))

ImageUrlOf(fig, links) ==
    IF fig.graphic.present
    THEN IF fig.graphic.has_href /\ fig.graphic.href # <<>>
         THEN FirstMatch(fig.graphic.href, links)
         ELSE NoImageUrl
    ELSE NoImageUrl

Record(p, t, a, c, i) ==
    [pmcid |-> p, title |-> t, abstract |-> a, captions |-> c, images |-> i]

-----------------------------------------------------------------------------
(* The request log *)

Request(kind, ok, batch, ids, doc, id, links) ==
    [kind |-> kind, ok |-> ok, batch |-> batch, ids |-> ids, doc |-> doc,
     pmcid |-> id, links |-> links]

SearchRequest(ok) == Request("esearch", ok, <<>>, <<>>, <<>>, None, <<>>)
EfetchRequest(ok, batch, doc) ==
    Request("efetch", ok, batch, Join(",", batch), doc, None, <<>>)
PageRequest(ok, id, links) == Request("page", ok, <<>>, <<>>, <<>>, id, links)

-----------------------------------------------------------------------------
(* The run *)

Init(sizes) ==
    /\ pc = "search"
    /\ batch_size \in sizes
    /\ pmcids = <<>>
    /\ article_details = <<>>
    /\ batch_start = 0
    /\ articles = <<>>
    /\ art_idx = 1
    /\ pmcid = None
    /\ cdn_links = <<>>
    /\ title = None
    /\ abstract = None
    /\ captions = <<>>
    /\ images = <<>>
    /\ fig_idx = 1
    /\ files = <<>>
    /\ log = <<>>

\* main: pmcids = fetch_pmc_ids(...)
Search(idseqs) ==
    /\ pc = "search"
    /\ \E ok \in BOOLEAN, ids \in idseqs :
          /\ pmcids' = fetch_pmc_ids(ok, ids)
          /\ log' = Append(log, SearchRequest(ok))
    /\ pc' = "main"
    /\ UNCHANGED <<batch_size, article_details, batch_start, articles, art_idx,
                   pmcid, cdn_links, title, abstract, captions, images,
                   fig_idx, files>>

\* variant: the file is written whether or not there are identifiers
MainNoIds_WritesEmpty ==
    /\ pc = "main"
    /\ pmcids = <<>>
    /\ files' = Append(files, <<>>)
    /\ pc' = "done"
    /\ UNCHANGED <<batch_size, pmcids, article_details, batch_start, articles,
                   art_idx, pmcid, cdn_links, title, abstract, captions,
                   images, fig_idx, log>>

\* main: `if pmcids:` is false, nothing more happens
MainNoIds ==
    /\ pc = "main"
    /\ pmcids = <<>>
    /\ pc' = "done"
    /\ UNCHANGED <<batch_size, pmcids, article_details, batch_start, articles,
                   art_idx, pmcid, cdn_links, title, abstract, captions,
                   images, fig_idx, files, log>>

\* main: `if pmcids:` is true, fetch_article_details is entered
MainCall ==
    /\ pc = "main"
    /\ pmcids # <<>>
    /\ article_details' = <<>>
    /\ batch_start' = 0
    /\ pc' = "batch"
    /\ UNCHANGED <<batch_size, pmcids, articles, art_idx, pmcid, cdn_links,
                   title, abstract, captions, images, fig_idx, files, log>>

\* variant: `break` instead of `continue`
EfetchFail_Break ==
    /\ pc = "batch"
    /\ batch_start < Len(pmcids)
    /\ LET batch == BatchOf(pmcids, batch_start, batch_size)
       IN  log' = Append(log, EfetchRequest(FALSE, batch, <<>>))
    /\ pc' = "write"
    /\ UNCHANGED <<batch_size, pmcids, article_details, batch_start, articles,
                   art_idx, pmcid, cdn_links, title, abstract, captions,
                   images, fig_idx, files>>

\* one iteration head of the batch loop whose request fails: `continue`
EfetchFail ==
    /\ pc = "batch"
    /\ batch_start < Len(pmcids)
    /\ LET batch == BatchOf(pmcids, batch_start, batch_size)
       IN  log' = Append(log, EfetchRequest(FALSE, batch, <<>>))
    /\ batch_start' = batch_start + batch_size
    /\ UNCHANGED <<pc, batch_size, pmcids, article_details, articles, art_idx,
                   pmcid, cdn_links, title, abstract, captions, images,
                   fig_idx, files>>

\* one iteration head of the batch loop whose request succeeds; the service
\* returns at most one article element per requested identifier
EfetchOk(arts) ==
    /\ pc = "batch"
    /\ batch_start < Len(pmcids)
    /\ LET batch == BatchOf(pmcids, batch_start, batch_size)
       IN  \E doc \in SeqsUpTo(arts, Len(batch)) :
              /\ log' = Append(log, EfetchRequest(TRUE, batch, doc))
              /\ articles' = doc
    /\ art_idx' = 1
    /\ pc' = "article"
    /\ UNCHANGED <<batch_size, pmcids, article_details, batch_start, pmcid,
                   cdn_links, title, abstract, captions, images, fig_idx,
                   files>>

\* the batch loop is exhausted: return article_details
Return ==
    /\ pc = "batch"
    /\ batch_start >= Len(pmcids)
    /\ pc' = "write"
    /\ UNCHANGED <<batch_size, pmcids, article_details, batch_start, articles,
                   art_idx, pmcid, cdn_links, title, abstract, captions,
                   images, fig_idx, files, log>>

\* variant: the page is requested only for an article that has figures
ArticleHead_SkipNoFigs(pages) ==
    /\ pc = "article"
    /\ art_idx <= Len(articles)
    /\ LET article == articles[art_idx]
           id == PmcidOf(article)
       IN  /\ pmcid' = id
           /\ IF article.figs = <<>>
              THEN cdn_links' = <<>> /\ log' = log
              ELSE \E ok \in BOOLEAN, page \in pages :
                      LET links == fetch_cdn_links(ok, page)
                      IN  /\ cdn_links' = links
                          /\ log' = Append(log, PageRequest(ok, id, links))
           /\ title' = TitleOf(article)
           /\ abstract' = AbstractOf(article)
    /\ captions' = <<>>
    /\ images' = <<>>
    /\ fig_idx' = 1
    /\ pc' = "fig"
    /\ UNCHANGED <<batch_size, pmcids, article_details, batch_start, articles,
                   art_idx, files>>

\* the article loop body up to the figure loop
ArticleHead(pages) ==
    /\ pc = "article"
    /\ art_idx <= Len(articles)
    /\ LET article == articles[art_idx]
           id == PmcidOf(article)
       IN  /\ pmcid' = id
           /\ \E ok \in BOOLEAN, page \in pages :
                 LET links == fetch_cdn_links(ok, page)
                 IN  /\ cdn_links' = links
                     /\ log' = Append(log, PageRequest(ok, id, links))
           /\ title' = TitleOf(article)
           /\ abstract' = AbstractOf(article)
    /\ captions' = <<>>
    /\ images' = <<>>
    /\ fig_idx' = 1
    /\ pc' = "fig"
    /\ UNCHANGED <<batch_size, pmcids, article_details, batch_start, articles,
                   art_idx, files>>

\* variant: the image entry is appended only inside `if graphic is not None`
FigStep_Misaligned ==
    /\ pc = "fig"
    /\ fig_idx <= Len(articles[art_idx].figs)
    /\ LET fig == articles[art_idx].figs[fig_idx]
       IN  /\ captions' = Append(captions, CaptionOf(fig))
           /\ images' = IF fig.graphic.present
                        THEN Append(images, ImageUrlOf(fig, cdn_links))
                        ELSE images
    /\ fig_idx' = fig_idx + 1
    /\ UNCHANGED <<pc, batch_size, pmcids, article_details, batch_start,
                   articles, art_idx, pmcid, cdn_links, title, abstract,
                   files, log>>

\* one iteration of the figure loop
FigStep ==
    /\ pc = "fig"
    /\ fig_idx <= Len(articles[art_idx].figs)
    /\ LET fig == articles[art_idx].figs[fig_idx]
       IN  /\ captions' = Append(captions, CaptionOf(fig))
           /\ images' = Append(images, ImageUrlOf(fig, cdn_links))
    /\ fig_idx' = fig_idx + 1
    /\ UNCHANGED <<pc, batch_size, pmcids, article_details, batch_start,
                   articles, art_idx, pmcid, cdn_links, title, abstract,
                   files, log>>

\* the figure loop is exhausted: article_details.append({...})
ArticleAppend ==
    /\ pc = "fig"
    /\ fig_idx > Len(articles[art_idx].figs)
    /\ article_details' =
          Append(article_details,
                 Record(pmcid, title, abstract, captions, images))
    /\ art_idx' = art_idx + 1
    /\ pc' = "article"
    /\ UNCHANGED <<batch_size, pmcids, batch_start, articles, pmcid, cdn_links,
                   title, abstract, captions, images, fig_idx, files, log>>

\* the article loop is exhausted: next iteration of the batch loop
BatchEnd ==
    /\ pc = "article"
    /\ art_idx > Len(articles)
    /\ batch_start' = batch_start + batch_size
    /\ pc' = "batch"
    /\ UNCHANGED <<batch_size, pmcids, article_details, articles, art_idx,
                   pmcid, cdn_links, title, abstract, captions, images,
                   fig_idx, files, log>>

\* main: json.dump(details, f)
MainWrite ==
    /\ pc = "write"
    /\ files' = Append(files, article_details)
    /\ pc' = "done"
    /\ UNCHANGED <<batch_size, pmcids, article_details, batch_start, articles,
                   art_idx, pmcid, cdn_links, title, abstract, captions,
                   images, fig_idx, log>>

\* Runs with several batches, articles and pages from the small sets
InitRun == Init(BatchSizes)

Next ==
    \/ Search(IdSeqs)
    \/ MainNoIds
    \/ MainCall
    \/ EfetchFail
    \/ EfetchOk(RunArticles)
    \/ Return
    \/ ArticleHead(RunPages)
    \/ FigStep
    \/ ArticleAppend
    \/ BatchEnd
    \/ MainWrite

Spec == InitRun /\ [][Next]_vars

\* Runs over one identifier, the article and its page from the full products
InitOne == Init({DefaultBatchSize})

NextOne ==
    \/ Search({<<IdNames[1]>>})
    \/ MainNoIds
    \/ MainCall
    \/ EfetchFail
    \/ EfetchOk(AllArticles)
    \/ Return
    \/ ArticleHead(AllPages)
    \/ FigStep
    \/ ArticleAppend
    \/ BatchEnd
    \/ MainWrite

SpecOne == InitOne /\ [][NextOne]_vars

-----------------------------------------------------------------------------
(* What the log says the run has requested and received *)

RECURSIVE Flatten(_)
Flatten(ss) == IF ss = <<>> THEN <<>> ELSE Head(ss) \o Flatten(Tail(ss))

IsEfetch(r) == r.kind = "efetch"
IsPage(r) == r.kind = "page"

EfetchLog == SelectSeq(log, IsEfetch)
PageLog == SelectSeq(log, IsPage)

\* the batches requested so far, in request order
Batches == [i \in 1..Len(EfetchLog) |-> EfetchLog[i].batch]

\* the article elements of the successfully fetched batches, in order
SourceArticles ==
    Flatten([i \in 1..Len(EfetchLog) |->
                IF EfetchLog[i].ok THEN EfetchLog[i].doc ELSE <<>>])

NumBatches(n, b) == (n + b - 1) \div b

Finished == pc \in {"write", "done"}

\* position in the log of the latest efetch request before position j (0: none)
LastEfetchBefore(j) ==
    LET E == {e \in 1..(j - 1) : IsEfetch(log[e])}
    IN  IF E = {} THEN 0 ELSE CHOOSE e \in E : \A d \in E : d <= e

\* position in the log of the first efetch request after position e, or the
\* position after the end of the log
NextEfetchAfter(e) ==
    LET E == {d \in (e + 1)..Len(log) : IsEfetch(log[d])}
    IN  IF E = {} THEN Len(log) + 1 ELSE CHOOSE d \in E : \A c \in E : d <= c

(* What the documents say a record has to be *)

HasRef(fig) ==
    fig.graphic.present /\ fig.graphic.has_href /\ fig.graphic.href # <<>>

MatchingLinks(fig, links) ==
    {j \in 1..Len(links) : Contains(fig.graphic.href, links[j])}

ExpectedImage(fig, links) ==
    LET M == MatchingLinks(fig, links)
    IN  IF ~HasRef(fig) THEN <<"No image URL">>
        ELSE IF M = {} THEN <<"No Match Found">>
        ELSE links[CHOOSE j \in M : \A k \in M : j <= k]

ExpectedText(elem, sentinel) == IF elem.present THEN elem.text ELSE sentinel

ExpectedRecord(a, links) ==
    [pmcid |-> ExpectedText(a.pmcid, "No PMCID"),
     title |-> ExpectedText(a.title, "No title"),
     abstract |-> ExpectedText(a.abstract, "No abstract"),
     captions |-> [i \in 1..Len(a.figs) |->
                      ExpectedText(a.figs[i].caption, "No caption")],
     images |-> [i \in 1..Len(a.figs) |-> ExpectedImage(a.figs[i], links)]]

\* the records of all articles whose page request has been issued
ExpectedRecords ==
    [k \in 1..Len(PageLog) |-> ExpectedRecord(SourceArticles[k], PageLog[k].links)]

-----------------------------------------------------------------------------
(* C1: in every record captions and images have the same length, the number *)
(* of figures of the article, and position i of both was derived from the   *)
(* i-th figure of the article in document order; the lists under            *)
(* construction are aligned in the same way.                                *)
C1_Aligned ==
    /\ \A k \in 1..Len(article_details) :
          LET r == article_details[k]
              a == SourceArticles[k]
          IN  /\ Len(r.captions) = Len(r.images)
              /\ Len(r.captions) = Len(a.figs)
              /\ \A i \in 1..Len(a.figs) :
                    /\ r.captions[i] =
                          ExpectedText(a.figs[i].caption, "No caption")
                    /\ r.images[i] = ExpectedImage(a.figs[i], PageLog[k].links)
    /\ Len(captions) = Len(images)
    /\ pc = "fig" => Len(captions) = fig_idx - 1

C1_Witness ==
    \E k \in 1..Len(article_details) :
        LET r == article_details[k]
        IN  /\ Len(r.captions) = 3
            /\ r.captions = <<"c1", "No caption", "c2">>
            /\ r.images[2] = <<"No image URL">>
            /\ r.images[1] # r.images[3]
            /\ r.images[3] # <<"No Match Found">>

(* C2: the batches requested are ceil(N/B) contiguous slices of at most B   *)
(* identifiers each, and concatenated in request order they are the         *)
(* identifier list; each request carries its batch joined with commas.      *)
C2_Batching ==
    LET N == Len(pmcids)
        done == Flatten(Batches)
    IN  /\ done = SubSeq(pmcids, 1, Len(done))
        /\ \A i \in 1..Len(Batches) :
              /\ Len(Batches[i]) >= 1
              /\ Len(Batches[i]) <= batch_size
              /\ Batches[i] =
                    SubSeq(pmcids, (i - 1) * batch_size + 1,
                           (i - 1) * batch_size + Len(Batches[i]))
              /\ Len(EfetchLog[i].ids) = 2 * Len(Batches[i]) - 1
              /\ \A j \in 1..Len(Batches[i]) :
                    EfetchLog[i].ids[2 * j - 1] = Batches[i][j]
        /\ (Finished /\ N >= 1) =>
              /\ Len(Batches) = NumBatches(N, batch_size)
              /\ done = pmcids

C2_Witness ==
    /\ pc = "done"
    /\ Len(pmcids) = 3
    /\ batch_size = 2
    /\ Len(Batches) = 2
    /\ Batches[2] = <<"33">>

(* C3: after a failed search request the identifier list is empty, no       *)
(* metadata request and no page request is ever issued, and no record is    *)
(* produced.                                                                *)
C3_SearchFailure ==
    (Len(log) >= 1 /\ ~log[1].ok) =>
        /\ pmcids = <<>>
        /\ Len(log) = 1
        /\ article_details = <<>>
        /\ \A f \in 1..Len(files) : files[f] = <<>>

C3_Witness == pc = "done" /\ Len(log) = 1 /\ ~log[1].ok

(* C4: the records accumulated are the records of the articles of the       *)
(* successfully fetched batches, in batch order, each a function of its own *)
(* article and page alone; a failed batch adds nothing and every batch is   *)
(* still requested.                                                         *)
C4_PartialFailure ==
    /\ Len(PageLog) <= Len(SourceArticles)
    /\ pc \in {"batch", "write", "done"} => article_details = ExpectedRecords
    /\ (Finished /\ pmcids # <<>>) =>
          /\ Len(EfetchLog) = NumBatches(Len(pmcids), batch_size)
          /\ Len(article_details) = Len(SourceArticles)

C4_Witness ==
    /\ pc = "done"
    /\ Len(EfetchLog) = 3
    /\ EfetchLog[1].ok /\ EfetchLog[1].doc # <<>>
    /\ ~EfetchLog[2].ok
    /\ EfetchLog[3].ok /\ EfetchLog[3].doc # <<>>
    /\ Len(article_details) = 2

(* C5: a figure's image entry is "No image URL" when the figure has no      *)
(* graphic reference, otherwise the first link of the article's list that   *)
(* contains the reference, otherwise "No Match Found"; a figure without a   *)
(* graphic element never gets "No Match Found" and a figure with a          *)
(* reference never gets "No image URL".                                     *)
C5_Join ==
    /\ \A k \in 1..Len(article_details) :
          \A i \in 1..Len(SourceArticles[k].figs) :
              LET fig == SourceArticles[k].figs[i]
                  url == article_details[k].images[i]
              IN  /\ url = ExpectedImage(fig, PageLog[k].links)
                  /\ ~fig.graphic.present => url # <<"No Match Found">>
                  /\ HasRef(fig) => url # <<"No image URL">>
    /\ pc = "fig" =>
          \A i \in 1..Len(images) :
              images[i] = ExpectedImage(articles[art_idx].figs[i], cdn_links)

C5_Witness ==
    \E k \in 1..Len(article_details) :
        LET fig == SourceArticles[k].figs[1]
            links == PageLog[k].links
        IN  /\ Len(SourceArticles[k].figs) >= 1
            /\ Len(links) = 2
            /\ links[1] # links[2]
            /\ MatchingLinks(fig, links) = {1, 2}
            /\ HasRef(fig)
            /\ article_details[k].images[1] = links[1]

(* C6, as stated: the record of an article without a canonical identifier   *)
(* has the identifier "unknown".                                            *)
C6_Unknown ==
    \A k \in 1..Len(article_details) :
        ~SourceArticles[k].pmcid.present => article_details[k].pmcid = "unknown"

(* C6, amended: the record of an article without a canonical identifier has *)
(* the identifier "No PMCID", and its page is requested under that name.    *)
C6_NoPmcid ==
    \A k \in 1..Len(PageLog) :
        ~SourceArticles[k].pmcid.present =>
            /\ PageLog[k].pmcid = "No PMCID"
            /\ k <= Len(article_details) =>
                  article_details[k].pmcid = "No PMCID"

C6_Witness ==
    \E k \in 1..Len(article_details) :
        /\ ~SourceArticles[k].pmcid.present
        /\ article_details[k].pmcid = "No PMCID"

(* C7: title, abstract and every caption of every record is a string, never *)
(* a null value.                                                            *)
C7_NeverNull ==
    \A k \in 1..Len(article_details) :
        LET r == article_details[k]
        IN  /\ r.title # None
            /\ r.abstract # None
            /\ \A i \in 1..Len(r.captions) : r.captions[i] # None

(* C8, as stated: every run writes exactly one file, holding the records    *)
(* accumulated.                                                             *)
C8_AlwaysOneFile ==
    pc = "done" => (Len(files) = 1 /\ files[1] = article_details)

(* C8, amended: a run whose search returned at least one identifier writes  *)
(* exactly one file, after every batch has been requested, holding exactly  *)
(* the records of the successfully fetched batches, whatever batch or page  *)
(* request failed; a run whose search failed or returned nothing writes no  *)
(* file.                                                                    *)
C8_OneFileIfIds ==
    /\ pc # "done" => files = <<>>
    /\ (pc = "done" /\ pmcids = <<>>) => files = <<>>
    /\ (pc = "done" /\ pmcids # <<>>) =>
          /\ files = <<article_details>>
          /\ files[1] = ExpectedRecords
          /\ Len(files[1]) = Len(SourceArticles)
          /\ Len(EfetchLog) = NumBatches(Len(pmcids), batch_size)

C8_Witness ==
    /\ pc = "done"
    /\ Len(files) = 1
    /\ Len(files[1]) >= 2
    /\ \E i \in 1..Len(EfetchLog) : ~EfetchLog[i].ok
    /\ \E k \in 1..Len(PageLog) : ~PageLog[k].ok

(* C9: the log holds one search request, first; one metadata request per    *)
(* batch; and after each metadata request, before the next one, exactly one *)
(* page request per article element of its response, in document order and  *)
(* under the article's identifier, none after a failed one.                 *)
C9_OncePerUnit ==
    /\ \A j \in 1..Len(log) : (log[j].kind = "esearch") <=> (j = 1)
    /\ pc # "search" => Len(log) >= 1
    /\ \A j \in 1..Len(log) :
          IsPage(log[j]) =>
              LET e == LastEfetchBefore(j)
              IN  /\ e >= 1
                  /\ log[e].ok
                  /\ j - e <= Len(log[e].doc)
                  /\ log[j].pmcid =
                        ExpectedText(log[e].doc[j - e].pmcid, "No PMCID")
    /\ \A e \in 1..Len(log) :
          (IsEfetch(log[e]) /\ (Finished \/ NextEfetchAfter(e) <= Len(log))) =>
              NextEfetchAfter(e) - e - 1 =
                  (IF log[e].ok THEN Len(log[e].doc) ELSE 0)
    /\ \A i \in 1..Len(EfetchLog) :
          \A j \in 1..Len(EfetchLog) :
              i # j => EfetchLog[i].batch # EfetchLog[j].batch
    /\ Finished =>
          Len(EfetchLog) =
              (IF pmcids = <<>> THEN 0
               ELSE NumBatches(Len(pmcids), batch_size))

C9_Witness ==
    /\ pc = "done"
    /\ \E e \in 1..Len(EfetchLog) :
          /\ EfetchLog[e].ok
          /\ Len(EfetchLog[e].doc) = 2
          /\ EfetchLog[e].doc[1].figs = <<>>
          /\ Len(EfetchLog[e].doc[2].figs) = 3
    /\ \E e \in 1..Len(EfetchLog) : ~EfetchLog[e].ok
    /\ Len(PageLog) = 2

(* C10: a failed page request yields the empty link list; the article's     *)
(* record is still appended with its title, abstract and captions, each of  *)
(* its images "No Match Found" (figure with a reference) or "No image URL"  *)
(* (figure without); and the remaining articles and batches are processed.  *)
C10_PageFailure ==
    /\ \A k \in 1..Len(PageLog) :
          ~PageLog[k].ok =>
              /\ PageLog[k].links = <<>>
              /\ k <= Len(article_details) =>
                    LET r == article_details[k]
                        a == SourceArticles[k]
                    IN  /\ r.title = ExpectedText(a.title, "No title")
                        /\ r.abstract = ExpectedText(a.abstract, "No abstract")
                        /\ Len(r.captions) = Len(a.figs)
                        /\ Len(r.images) = Len(a.figs)
                        /\ \A i \in 1..Len(a.figs) :
                              /\ r.captions[i] =
                                    ExpectedText(a.figs[i].caption, "No caption")
                              /\ r.images[i] =
                                    (IF HasRef(a.figs[i])
                                     THEN <<"No Match Found">>
                                     ELSE <<"No image URL">>)
    /\ Len(article_details) = Len(PageLog) - (IF pc = "fig" THEN 1 ELSE 0)
    /\ (Finished /\ pmcids # <<>>) =>
          /\ Len(PageLog) = Len(SourceArticles)
          /\ Len(EfetchLog) = NumBatches(Len(pmcids), batch_size)

C10_Witness ==
    /\ pc = "done"
    /\ Len(EfetchLog) >= 2
    /\ Len(article_details) >= 3
    /\ ~PageLog[1].ok
    /\ article_details[1].images =
          <<<<"No Match Found">>, <<"No image URL">>, <<"No Match Found">>>>
    /\ PageLog[2].ok
    /\ EfetchLog[Len(EfetchLog)].doc # <<>>

====
